---- MODULE Spec2Model ----
(***************************************************************************)
(* menyoki: the background capture loop (Recorder::record), its handle     *)
(* (Record: cancellation sender + join handle) and the orchestrator's      *)
(* capture dispatch (App::record, App::capture, App::save_gif).            *)
(*                                                                         *)
(* Two threads: the caller (cpc) and at most one worker (wpc).  The        *)
(* cancellation channel is std::sync::mpsc: unbounded, send fails only     *)
(* when the receiver has been dropped, try_recv never blocks.              *)
(*                                                                         *)
(* Time: a run is either untimed (every interleaving of the two threads)   *)
(* or timed (timed = TRUE): `now` is a millisecond clock, computation      *)
(* takes no time, and a thread::sleep(d) ends at some instant in           *)
(* [start + d, start + d + jitter] (sleep guarantees only a minimum).      *)
(***************************************************************************)
EXTENDS Integers, Sequences, FiniteSets, TLC

VARIABLES
    prog,       \* which caller runs: "client" (a user of Recorder/Record, as
                \* test_record_mod), "record" (App::record), "capture" (App::capture)
    hasCommand, \* settings.args.is_present("command")
    fps,        \* Recorder::new(fps)
    failAt,     \* the image source returns None on its failAt-th call (0: never)
    timed,      \* timed run (see above)
    jitter,     \* timed run: the largest lateness of a wake-up, in ms
    now,        \* timed run: the clock, in ms
    wpc,        \* worker thread's position
    wWake,      \* worker: earliest end of its current sleep
    lastTick,   \* FpsClock.last_tick_time
    frames,     \* the worker's `frames` vector
    ticks,      \* number of clock.tick() calls completed
    calls,      \* number of get_image() calls made
    chan,       \* messages queued in the mpsc channel
    rxAlive,    \* the Receiver (self.channel.1) has not been dropped
    hpc,        \* the Record handle: "none", "held", "dropped", "consumed"
    cpc,        \* caller thread's position
    cWake,      \* caller: earliest end of its current sleep
    finishLog,  \* results of the finish() calls made so far, in order
    joinRes,    \* what thread.join() returned to the caller
    cmdRes,     \* result of the companion command: "none", "Ok", "Err"
    images,     \* what App::record / App::capture returned
    sink,       \* the output sink (Gif encoder / image encoder)
    log         \* history: the handoff events, the loop's iterations and
                \* its get_image() calls, in order

vars == <<prog, hasCommand, fps, failAt, timed, jitter, now, wpc, wWake,
          lastTick, frames, ticks, calls, chan, rxAlive, hpc, cpc, cWake,
          finishLog, joinRes, cmdRes, images, sink, log>>

(***************************************************************************)
(* Bounds of the model.                                                    *)
(***************************************************************************)
MaxFrames == 3
MaxFinish == 2
FpsSet == {1, 30, 100}
JitterSet == {0, 5, 10}

(***************************************************************************)
(* Program constants.                                                      *)
(***************************************************************************)
CallerSleepMs == 20
U16Max == 65535

\* Option<Image>
None == [some |-> FALSE, val |-> 0]
Some(x) == [some |-> TRUE, val |-> x]

Min(a, b) == IF a < b THEN a ELSE b
Max(a, b) == IF a > b THEN a ELSE b

(***************************************************************************)
(* FpsClock (src/record/fps.rs): get_fps(TimeUnit::Millisecond) is the     *)
(* frame interval in milliseconds, an f32; kept here as the exact          *)
(* fraction num/den.                                                       *)
(***************************************************************************)
GetFpsMillis(f) == [num |-> 1000, den |-> f]

\* `x as u64` of a non-negative float: truncation toward zero.
AsU64(q) == q.num \div q.den

\* `x as u16` of a non-negative float: truncation toward zero, saturating.
AsU16(q) == Min(q.num \div q.den, U16Max)

\* `x / 10.`
Div10(q) == [num |-> q.num, den |-> q.den * 10]

SleepFpsMillis(f) == f
\* Duration::from_millis(self.clock.get_fps(TimeUnit::Millisecond) as u64)
SleepMillis(f) == AsU64(GetFpsMillis(f))

FrameDelayNoDiv(f) == AsU16(GetFpsMillis(f))
\* (self.clock.get_fps(TimeUnit::Millisecond) / 10.) as u16
FrameDelay(f) == AsU16(Div10(GetFpsMillis(f)))

\* Frame::new(image, delay)
Frame(img, d) == [image |-> img, delay |-> d]

\* clock.tick(): sleep for what is left of the interval since the last tick.
TickWake(t, last, f) == Max(t, last + AsU64(GetFpsMillis(f)))

\* The image source: a deterministic source of distinct images 1, 2, 3, ...
\* that reports "unavailable" on its failAt-th call.
GetImage(n) == IF n = failAt THEN None ELSE Some(n)

(***************************************************************************)
(* The channel.                                                            *)
(***************************************************************************)
WorkerLive == wpc \notin {"none", "done", "panicked"}

\* Senders: the clone in Record (while held) and self.channel.0, which the
\* worker's closure owns until the thread ends.
SendersAlive == hpc = "held" \/ WorkerLive

\* self.channel.1.try_recv()
TryRecv == IF chan > 0 THEN "Ok"
           ELSE IF SendersAlive THEN "Empty" ELSE "Disconnected"

LoopContinuesUnlessDisconnected == TryRecv # "Disconnected"
LoopContinuesIfOk == TryRecv = "Ok"
\* while self.channel.1.try_recv().is_err()
LoopContinues == TryRecv # "Ok"

\* A send that needs the receiver to be at its receive (no queueing).
SendResultUnqueued == IF rxAlive /\ wpc = "poll" THEN "Ok" ELSE "Err"
\* self.sender.send(()): fails only when the receiver is gone
SendResult == IF rxAlive THEN "Ok" ELSE "Err"

NoRes == [tag |-> "none", frames |-> <<>>]

PushFront(fs, fr) == <<fr>> \o fs
\* frames.push(frame)
Push(fs, fr) == Append(fs, fr)

(***************************************************************************)
(* Initial states.                                                         *)
(***************************************************************************)
Init ==
    /\ prog \in {"client", "record", "capture"}
    /\ hasCommand \in BOOLEAN
    /\ (prog = "client" => hasCommand = FALSE)
    /\ fps \in FpsSet
    /\ failAt \in 0..MaxFrames
    /\ timed \in BOOLEAN
    /\ jitter \in JitterSet
    /\ (~timed => jitter = 0)
    /\ (timed => prog = "client")
    /\ now = 0
    /\ wpc = "none"
    /\ wWake = 0
    /\ lastTick = 0
    /\ frames = <<>>
    /\ ticks = 0
    /\ calls = 0
    /\ chan = 0
    /\ rxAlive = TRUE
    /\ hpc = "none"
    /\ cpc = "start"
    /\ cWake = 0
    /\ finishLog = <<>>
    /\ joinRes = NoRes
    /\ cmdRes = "none"
    /\ images = NoRes
    /\ sink = NoRes
    /\ log = <<>>

\* A sleep that ends at `w` may end now.
Awake(w) == timed => now >= w
\* The wake-up instant recorded for a sleep of d ms (untimed runs keep 0).
WakeAt(d) == IF timed THEN now + d ELSE 0

(***************************************************************************)
(* The worker thread: the closure of Recorder::record.                     *)
(***************************************************************************)
\* thread::spawn(move || ...) in Recorder::record, with Recorder::new(fps)
Spawn ==
    /\ wpc' = "sleep"
    /\ wWake' = WakeAt(SleepMillis(fps))
    /\ lastTick' = now
    /\ hpc' = "held"
    /\ log' = Append(log, "spawn")

\* thread::sleep(Duration::from_millis(...)) before the loop
WorkerSleep ==
    /\ wpc = "sleep"
    /\ Awake(wWake)
    /\ wpc' = "poll"
    /\ UNCHANGED <<prog, hasCommand, fps, failAt, timed, jitter, now, wWake,
                   lastTick, frames, ticks, calls, chan, rxAlive, hpc, cpc,
                   cWake, finishLog, joinRes, cmdRes, images, sink, log>>

\* the loop condition: one non-blocking poll of the receiver.  try_recv takes
\* a queued message if there is one; the loop goes on while it is_err().
WorkerPoll ==
    /\ wpc = "poll"
    /\ chan' = IF TryRecv = "Ok" THEN chan - 1 ELSE chan
    /\ log' = log \o (IF TryRecv = "Ok" THEN <<"observe">> ELSE <<>>)
                  \o (IF LoopContinues THEN <<"iterate">> ELSE <<>>)
    /\ IF LoopContinues
       THEN /\ Len(frames) < MaxFrames
            /\ wpc' = "tick"
       ELSE wpc' = "ret"
    /\ UNCHANGED <<prog, hasCommand, fps, failAt, timed, jitter, now, wWake,
                   lastTick, frames, ticks, calls, rxAlive, hpc, cpc, cWake,
                   finishLog, joinRes, cmdRes, images, sink>>

\* self.clock.tick(): start of the pacing sleep
WorkerTick ==
    /\ wpc = "tick"
    /\ wpc' = "ticksleep"
    /\ wWake' = IF timed THEN TickWake(now, lastTick, fps) ELSE 0
    /\ UNCHANGED <<prog, hasCommand, fps, failAt, timed, jitter, now,
                   lastTick, frames, ticks, calls, chan, rxAlive, hpc, cpc,
                   cWake, finishLog, joinRes, cmdRes, images, sink, log>>

\* self.clock.tick(): the pacing sleep is over, the reference point advances
WorkerTickEnd ==
    /\ wpc = "ticksleep"
    /\ Awake(wWake)
    /\ wpc' = "image"
    /\ lastTick' = now
    /\ ticks' = ticks + 1
    /\ UNCHANGED <<prog, hasCommand, fps, failAt, timed, jitter, now, wWake,
                   frames, calls, chan, rxAlive, hpc, cpc, cWake, finishLog,
                   joinRes, cmdRes, images, sink, log>>

WorkerImageSkipsOnNone ==
    /\ wpc = "image"
    /\ calls' = calls + 1
    /\ LET img == GetImage(calls + 1) IN
       frames' = IF img = None THEN frames
                 ELSE Push(frames, Frame(img.val, FrameDelay(fps)))
    /\ wpc' = "poll"
    /\ log' = Append(log, "image")
    /\ UNCHANGED <<prog, hasCommand, fps, failAt, timed, jitter, now, wWake,
                   lastTick, ticks, chan, rxAlive, hpc, cpc, cWake,
                   finishLog, joinRes, cmdRes, images, sink>>
WorkerImageStopsOnNone ==
    /\ wpc = "image"
    /\ calls' = calls + 1
    /\ LET img == GetImage(calls + 1) IN
       IF img = None
       THEN /\ wpc' = "ret"
            /\ UNCHANGED <<frames, rxAlive>>
       ELSE /\ frames' = Push(frames, Frame(img.val, FrameDelay(fps)))
            /\ wpc' = "poll"
            /\ UNCHANGED rxAlive
    /\ log' = Append(log, "image")
    /\ UNCHANGED <<prog, hasCommand, fps, failAt, timed, jitter, now, wWake,
                   lastTick, ticks, chan, hpc, cpc, cWake, finishLog,
                   joinRes, cmdRes, images, sink>>
\* match get_image() { Some(image) => frames.push(..), None => panic!(..) }
WorkerImage ==
    /\ wpc = "image"
    /\ calls' = calls + 1
    /\ LET img == GetImage(calls + 1) IN
       IF img = None
       THEN /\ wpc' = "panicked"
            /\ rxAlive' = FALSE
            /\ UNCHANGED frames
       ELSE /\ frames' = Push(frames, Frame(img.val, FrameDelay(fps)))
            /\ wpc' = "poll"
            /\ UNCHANGED rxAlive
    /\ log' = Append(log, "image")
    /\ UNCHANGED <<prog, hasCommand, fps, failAt, timed, jitter, now, wWake,
                   lastTick, ticks, chan, hpc, cpc, cWake, finishLog,
                   joinRes, cmdRes, images, sink>>

\* the closure returns `frames`; the Recorder it owns (receiver and sender)
\* is dropped
WorkerReturn ==
    /\ wpc = "ret"
    /\ wpc' = "done"
    /\ rxAlive' = FALSE
    /\ log' = Append(log, "return")
    /\ UNCHANGED <<prog, hasCommand, fps, failAt, timed, jitter, now, wWake,
                   lastTick, frames, ticks, calls, chan, hpc, cpc, cWake,
                   finishLog, joinRes, cmdRes, images, sink>>

Worker == WorkerSleep \/ WorkerPoll \/ WorkerTick \/ WorkerTickEnd
          \/ WorkerImage \/ WorkerReturn

(***************************************************************************)
(* Record::finish and JoinHandle::join.                                    *)
(***************************************************************************)
\* Record::finish: self.sender.send(())?; Ok(())
Finish ==
    /\ finishLog' = Append(finishLog, SendResult)
    /\ IF SendResult = "Ok"
       THEN chan' = chan + 1 /\ log' = Append(log, "send")
       ELSE UNCHANGED chan /\ log' = Append(log, "send_err")

WorkerEnded == wpc \in {"done", "panicked"}

\* thread.join(): Ok(frames) when the closure returned, Err when it panicked
JoinValue == IF wpc = "done" THEN [tag |-> "Ok", frames |-> frames]
             ELSE [tag |-> "Err", frames |-> <<>>]

(***************************************************************************)
(* A client of Recorder/Record (test_record_mod and its variations).       *)
(***************************************************************************)
\* let recorder = Recorder::new(fps); let record = recorder.record(source);
\* thread::sleep(Duration::from_millis(20));
ClientRecord ==
    /\ prog = "client"
    /\ cpc = "start"
    /\ Spawn
    /\ cpc' = "sleep"
    /\ cWake' = WakeAt(CallerSleepMs)
    /\ UNCHANGED <<prog, hasCommand, fps, failAt, timed, jitter, now, frames,
                   ticks, calls, chan, rxAlive, finishLog, joinRes, cmdRes,
                   images, sink>>

ClientWake ==
    /\ prog = "client"
    /\ cpc = "sleep"
    /\ Awake(cWake)
    /\ cpc' = "ready"
    /\ UNCHANGED <<prog, hasCommand, fps, failAt, timed, jitter, now, wpc,
                   wWake, lastTick, frames, ticks, calls, chan, rxAlive, hpc,
                   cWake, finishLog, joinRes, cmdRes, images, sink, log>>

\* record.finish()
ClientFinish ==
    /\ prog = "client"
    /\ cpc = "ready"
    /\ Len(finishLog) < MaxFinish
    /\ Finish
    /\ UNCHANGED <<prog, hasCommand, fps, failAt, timed, jitter, now, wpc,
                   wWake, lastTick, frames, ticks, calls, rxAlive, hpc, cpc,
                   cWake, joinRes, cmdRes, images, sink>>

\* record.thread.join(): the call
ClientJoin ==
    /\ prog = "client"
    /\ cpc = "ready"
    /\ cpc' = "join"
    /\ UNCHANGED <<prog, hasCommand, fps, failAt, timed, jitter, now, wpc,
                   wWake, lastTick, frames, ticks, calls, chan, rxAlive, hpc,
                   cWake, finishLog, joinRes, cmdRes, images, sink, log>>

\* record.thread.join(): the return, once the worker thread has ended
ClientJoinReturn ==
    /\ prog = "client"
    /\ cpc = "join"
    /\ WorkerEnded
    /\ joinRes' = JoinValue
    /\ cpc' = "done"
    /\ hpc' = "consumed"
    /\ log' = Append(log, "join")
    /\ UNCHANGED <<prog, hasCommand, fps, failAt, timed, jitter, now, wpc,
                   wWake, lastTick, frames, ticks, calls, chan, rxAlive,
                   cWake, finishLog, cmdRes, images, sink>>

\* the Record goes out of scope without finish() or join()
ClientDrop ==
    /\ prog = "client"
    /\ cpc = "ready"
    /\ finishLog = <<>>
    /\ hpc' = "dropped"
    /\ cpc' = "done"
    /\ log' = Append(log, "drop")
    /\ UNCHANGED <<prog, hasCommand, fps, failAt, timed, jitter, now, wpc,
                   wWake, lastTick, frames, ticks, calls, chan, rxAlive,
                   cWake, finishLog, joinRes, cmdRes, images, sink>>

Client == ClientRecord \/ ClientWake \/ ClientFinish \/ ClientJoin
          \/ ClientJoinReturn \/ ClientDrop

(***************************************************************************)
(* The orchestrator: App::record, App::capture, App::save_gif,             *)
(* App::save_image.  Untimed runs only (the command takes any time).       *)
(***************************************************************************)
cfgVars == <<prog, hasCommand, fps, failAt, timed, jitter, now, cWake>>

AppRecordAsyncSkipCommand ==
    /\ prog = "record"
    /\ hasCommand
    /\ cpc = "start"
    /\ Spawn
    /\ cpc' = "get"
    /\ UNCHANGED <<cfgVars, frames, ticks, calls, chan, rxAlive, finishLog,
                   joinRes, cmdRes, images, sink>>
\* App::record, command configured: Recorder::new(..); recorder.record_async()
AppRecordAsync ==
    /\ prog = "record"
    /\ hasCommand
    /\ cpc = "start"
    /\ Spawn
    /\ cpc' = "command"
    /\ UNCHANGED <<cfgVars, frames, ticks, calls, chan, rxAlive, finishLog,
                   joinRes, cmdRes, images, sink>>

\* App::capture, command configured: thread::spawn(move || { show_countdown();
\* get_image() }).  No channel and no Record: only a JoinHandle.
AppCaptureAsync ==
    /\ prog = "capture"
    /\ hasCommand
    /\ cpc = "start"
    /\ wpc' = "countdown"
    /\ log' = Append(log, "spawn")
    /\ cpc' = "command"
    /\ UNCHANGED <<cfgVars, wWake, lastTick, frames, ticks, calls, chan,
                   rxAlive, hpc, finishLog, joinRes, cmdRes, images, sink>>

\* the image thread: window.show_countdown()
ImageCountdown ==
    /\ wpc = "countdown"
    /\ wpc' = "capture"
    /\ UNCHANGED <<cfgVars, wWake, lastTick, frames, ticks, calls, chan,
                   rxAlive, hpc, cpc, finishLog, joinRes, cmdRes, images,
                   sink, log>>

\* Option<Image> as a sequence of at most one frame (no delay semantics)
OptionFrames(img) == IF img.some THEN <<Frame(img.val, 0)>> ELSE <<>>

\* the image thread: window.get_image(), the closure's value
ImageCapture ==
    /\ wpc = "capture"
    /\ calls' = calls + 1
    /\ frames' = OptionFrames(GetImage(calls + 1))
    /\ wpc' = "done"
    /\ log' = Append(log, "return")
    /\ UNCHANGED <<cfgVars, wWake, lastTick, ticks, chan, rxAlive, hpc, cpc,
                   finishLog, joinRes, cmdRes, images, sink>>

\* get_command().expect(..).execute().expect("Failed to run the command"):
\* the command runs to completion; its failure panics the caller, and the
\* unwinding drops the Record (or the JoinHandle) unused.
AppExecute ==
    /\ prog \in {"record", "capture"}
    /\ cpc = "command"
    /\ \E r \in {"Ok", "Err"} :
          /\ cmdRes' = r
          /\ IF r = "Ok"
             THEN /\ cpc' = IF prog = "record" THEN "get" ELSE "join"
                  /\ UNCHANGED hpc
             ELSE /\ cpc' = "panicked"
                  /\ hpc' = IF hpc = "held" THEN "dropped" ELSE hpc
    /\ log' = Append(log, "cmd")
    /\ UNCHANGED <<cfgVars, wpc, wWake, lastTick, frames, ticks, calls, chan,
                   rxAlive, finishLog, joinRes, images, sink>>

\* Vec::new()
EmptyVec == [tag |-> "Ok", frames |-> <<>>]

\* record.get(): the handle's terminal "finish + collect".  It sends the
\* cancellation and then joins; Some(join result) is what it yields after a
\* send that succeeded.  After a send that failed both of the values
\* App::record handles are kept: None (=> Vec::new()) and Some(join result).
AppGet ==
    /\ prog = "record"
    /\ cpc = "get"
    /\ Finish
    /\ hpc' = "consumed"
    /\ \/ /\ cpc' = "join"
          /\ UNCHANGED images
       \/ /\ SendResult = "Err"
          /\ images' = EmptyVec
          /\ cpc' = "save"
    /\ UNCHANGED <<cfgVars, wpc, wWake, lastTick, frames, ticks, calls,
                   rxAlive, joinRes, cmdRes, sink>>

\* App::record: Some(frames) => frames.expect("Failed to retrieve the frames")
\* App::capture: image_thread.join().expect("Failed to join the image thread")
AppJoinReturn ==
    /\ prog \in {"record", "capture"}
    /\ cpc = "join"
    /\ WorkerEnded
    /\ joinRes' = JoinValue
    /\ log' = Append(log, "join")
    /\ IF JoinValue.tag = "Ok"
       THEN images' = JoinValue /\ cpc' = "save"
       ELSE UNCHANGED images /\ cpc' = "panicked"
    /\ UNCHANGED <<cfgVars, wpc, wWake, lastTick, frames, ticks, calls, chan,
                   rxAlive, hpc, finishLog, cmdRes, sink>>

\* the frames a synchronous recording of n ticks collects
SyncFrames(n) == [i \in 1..n |-> Frame(i, FrameDelay(fps))]

\* App::record, no command: recorder.record_sync(&input_state), the capture
\* loop on the caller's own thread, stopped after n ticks by the input state
AppRecordSync ==
    /\ prog = "record"
    /\ ~hasCommand
    /\ cpc = "start"
    /\ \E n \in 0..MaxFrames :
          IF failAt \in 1..n
          THEN /\ calls' = failAt
               /\ cpc' = "panicked"
               /\ UNCHANGED images
          ELSE /\ calls' = n
               /\ images' = [tag |-> "Ok", frames |-> SyncFrames(n)]
               /\ cpc' = "save"
    /\ UNCHANGED <<cfgVars, wpc, wWake, lastTick, frames, ticks, chan,
                   rxAlive, hpc, finishLog, joinRes, cmdRes, sink, log>>

AppCaptureSyncSpawns ==
    /\ prog = "capture"
    /\ ~hasCommand
    /\ cpc = "start"
    /\ wpc' = "countdown"
    /\ log' = Append(log, "spawn")
    /\ cpc' = "join"
    /\ UNCHANGED <<cfgVars, wWake, lastTick, frames, ticks, calls, chan,
                   rxAlive, hpc, finishLog, joinRes, cmdRes, images, sink>>
\* App::capture, no command: show_countdown(); window.get_image()
AppCaptureSync ==
    /\ prog = "capture"
    /\ ~hasCommand
    /\ cpc = "start"
    /\ calls' = calls + 1
    /\ images' = [tag |-> "Ok", frames |-> OptionFrames(GetImage(calls + 1))]
    /\ cpc' = "save"
    /\ UNCHANGED <<cfgVars, wpc, wWake, lastTick, frames, ticks, chan,
                   rxAlive, hpc, finishLog, joinRes, cmdRes, sink, log>>

AppSaveGifUnchecked ==
    /\ prog = "record"
    /\ cpc = "save"
    /\ \E r \in {"Ok", "Err"} :
          /\ sink' = [tag |-> r, frames |-> images.frames]
          /\ cpc' = IF r = "Ok" THEN "done" ELSE "failed"
    /\ UNCHANGED <<cfgVars, wpc, wWake, lastTick, frames, ticks, calls, chan,
                   rxAlive, hpc, finishLog, joinRes, cmdRes, images, log>>
\* App::save_gif: images.first().expect("No frames found to save") is
\* evaluated before Gif::new(..)?.save(images, ..) is called; the sink (Gif)
\* then succeeds or fails on its own
AppSaveGif ==
    /\ prog = "record"
    /\ cpc = "save"
    /\ IF images.frames = <<>>
       THEN /\ cpc' = "panicked"
            /\ UNCHANGED sink
       ELSE \E r \in {"Ok", "Err"} :
               /\ sink' = [tag |-> r, frames |-> images.frames]
               /\ cpc' = IF r = "Ok" THEN "done" ELSE "failed"
    /\ UNCHANGED <<cfgVars, wpc, wWake, lastTick, frames, ticks, calls, chan,
                   rxAlive, hpc, finishLog, joinRes, cmdRes, images, log>>

\* App::save_image: image.expect("Failed to get the window image");
\* encoder.write_image(..).expect("Failed to encode the image")
AppSaveImage ==
    /\ prog = "capture"
    /\ cpc = "save"
    /\ IF images.frames = <<>>
       THEN /\ cpc' = "panicked"
            /\ UNCHANGED sink
       ELSE \E r \in {"Ok", "Err"} :
               /\ sink' = [tag |-> r, frames |-> images.frames]
               /\ cpc' = IF r = "Ok" THEN "done" ELSE "panicked"
    /\ UNCHANGED <<cfgVars, wpc, wWake, lastTick, frames, ticks, calls, chan,
                   rxAlive, hpc, finishLog, joinRes, cmdRes, images, log>>

ImageThread == ImageCountdown \/ ImageCapture

App == AppRecordAsync \/ AppCaptureAsync \/ AppExecute \/ AppGet \/ AppJoinReturn \/ AppRecordSync
       \/ AppCaptureSync \/ AppSaveGif \/ AppSaveImage

(***************************************************************************)
(* Time (timed runs).                                                      *)
(***************************************************************************)
WorkerSleeping == wpc \in {"sleep", "ticksleep"}
CallerSleeping == cpc = "sleep"
\* The worker has a step to take that takes no time.  (At the frame bound
\* the model lets the worker rest.)
WorkerUrgent ==
    /\ wpc \in {"poll", "tick", "image", "ret"}
    /\ ~(wpc = "poll" /\ chan = 0 /\ Len(frames) >= MaxFrames)
CallerUrgent == cpc \in {"start", "ready"} \/ (cpc = "join" /\ WorkerEnded)

WakeTimes == (IF WorkerSleeping THEN {wWake, wWake + jitter} ELSE {})
             \cup (IF CallerSleeping THEN {cWake, cWake + jitter} ELSE {})
Deadlines == (IF WorkerSleeping THEN {wWake + jitter} ELSE {})
             \cup (IF CallerSleeping THEN {cWake + jitter} ELSE {})

Advance ==
    /\ timed
    /\ ~WorkerUrgent
    /\ ~CallerUrgent
    /\ \E t \in WakeTimes :
          /\ t > now
          /\ \A d \in Deadlines : t <= d
          /\ now' = t
    /\ UNCHANGED <<prog, hasCommand, fps, failAt, timed, jitter, wpc, wWake,
                   lastTick, frames, ticks, calls, chan, rxAlive, hpc, cpc,
                   cWake, finishLog, joinRes, cmdRes, images, sink, log>>

Next == Worker \/ ImageThread \/ Client \/ App \/ Advance

Spec == Init /\ [][Next]_vars

\* Both threads are scheduled: a thread that can take a step eventually takes
\* one, and the clock does not stop.
SpecLive == /\ Init /\ [][Next]_vars
            /\ WF_vars(Worker) /\ WF_vars(ImageThread)
            /\ WF_vars(Client) /\ WF_vars(App) /\ WF_vars(Advance)

(***************************************************************************)
(* Properties.                                                             *)
(***************************************************************************)
Has(e) == \E i \in DOMAIN log : log[i] = e
First(e) == CHOOSE i \in DOMAIN log : log[i] = e /\ \A j \in 1..(i - 1) : log[j] # e

\* The worker is the capture loop of Recorder::record.
RecorderWorker == wpc # "none" /\ prog \in {"client", "record"}

\* The number of get_image() calls so far that returned an image.
Captured == IF failAt \in 1..calls THEN calls - 1 ELSE calls

\* C1: background mode terminates.  With a source that always returns an
\* image, once finish() has been called the worker eventually leaves its
\* loop and ends, and a join that has been called returns; for every
\* interleaving (and every timing) and every FPS in {1, 30, 100}.
C1_BackgroundTerminates ==
    /\ (failAt = 0 /\ Len(finishLog) > 0) ~> (wpc = "done")
    /\ (failAt = 0 /\ Len(finishLog) > 0 /\ cpc = "join") ~> (joinRes.tag = "Ok")

C1_Witness ==
    /\ failAt = 0
    /\ fps = 30
    /\ finishLog = <<"Ok">>
    /\ Len(frames) = 2
    /\ wpc = "done"
    /\ joinRes.tag = "Ok"

C3_CaptureOrder ==
    RecorderWorker =>
        /\ Len(frames) = Captured
        /\ \A i \in 1..Len(frames) : frames[i].image = i
        /\ joinRes.tag = "Ok" => joinRes.frames = frames

C3_Witness ==
    /\ RecorderWorker
    /\ Len(frames) = MaxFrames
    /\ joinRes.tag = "Ok"
    /\ Len(joinRes.frames) = MaxFrames


FirstSend == CHOOSE i \in DOMAIN log :
                /\ log[i] \in {"send", "send_err"}
                /\ \A j \in 1..(i - 1) : log[j] \notin {"send", "send_err"}

\* C4: with a companion command configured, App::record starts the
\* background capture, then runs the command to completion, then sends the
\* cancellation (once, never before the command has completed), then blocks
\* in join until the worker has ended and returns the worker's frames.
C4_RecordWithCommandOrder ==
    (prog = "record" /\ hasCommand) =>
        /\ Has("cmd") => (Has("spawn") /\ First("spawn") < First("cmd"))
        /\ Len(finishLog) <= 1
        /\ Len(finishLog) = 1 =>
              /\ cmdRes = "Ok"
              /\ First("cmd") < FirstSend
        /\ chan > 0 => cmdRes = "Ok"
        /\ Has("join") =>
              /\ Len(finishLog) = 1
              /\ FirstSend < First("join")
              /\ WorkerEnded
        /\ (failAt = 0 /\ images.tag = "Ok") =>
              /\ Has("join")
              /\ images.frames = frames

IsHandoff(e) == e \in {"spawn", "cmd", "send", "send_err", "observe",
                        "return", "join"}

C4_Witness ==
    /\ prog = "record"
    /\ hasCommand
    /\ SelectSeq(log, IsHandoff)
          = <<"spawn", "cmd", "send", "observe", "return", "join">>
    /\ Len(images.frames) = 2
    /\ cpc = "save"

\* C5 (as claimed): when the companion command fails, the cancellation is
\* still sent to the worker, so that the worker ends.
C5_TeardownOnCommandFailure ==
    (prog = "record" /\ cmdRes = "Err") => Len(finishLog) > 0

\* C6 (as claimed): a second finish() on the same handle is reported as an
\* error.
C6_SecondFinishIsError ==
    \A i \in 2..Len(finishLog) : finishLog[i] = "Err"

\* C7: handoff ordering.  The worker returns its frames only after it has
\* taken a cancellation message from the channel, a message is only there
\* after a finish() that sent it, and join returns frames only after the
\* worker has returned them: send < observe < return < join.
C7_HandoffOrder ==
    (prog \in {"client", "record"}) =>
        /\ Has("observe") => (Has("send") /\ First("send") < First("observe"))
        /\ wpc \in {"ret", "done"} => Has("observe")
        /\ Has("return") => (Has("observe") /\ First("observe") < First("return"))
        /\ wpc = "done" <=> Has("return")
        /\ joinRes.tag = "Ok" =>
              /\ Has("return") /\ Has("join")
              /\ First("return") < First("join")

C7_Witness ==
    /\ prog = "client"
    /\ joinRes.tag = "Ok"
    /\ Len(joinRes.frames) = 1
    /\ Has("send") /\ Has("observe") /\ Has("return") /\ Has("join")

RecorderFrames == IF prog \in {"client", "record"} THEN frames ELSE <<>>

C10_EmptyRejectedAtSave ==
    /\ RecorderWorker =>
          /\ wpc = "panicked" => failAt \in 1..calls
          /\ (wpc = "done" /\ joinRes.tag # "none") => joinRes.tag = "Ok"
    /\ prog = "record" =>
          /\ sink.tag # "none" => sink.frames # <<>>
          /\ (images.tag = "Ok" /\ images.frames = <<>>) =>
                (cpc \in {"save", "panicked"} /\ sink = NoRes)

C10_Witness ==
    /\ prog = "record"
    /\ hasCommand
    /\ wpc = "done"
    /\ joinRes = [tag |-> "Ok", frames |-> <<>>]
    /\ images = EmptyVec
    /\ cpc = "panicked"
    /\ sink = NoRes


\* The number of thread::spawn calls made so far.
SpawnCount == Cardinality({i \in DOMAIN log : log[i] = "spawn"})

\* The threads that are live: the caller's and every spawned thread that has
\* not ended.
LiveThreads == 1 + (IF WorkerLive THEN SpawnCount ELSE 0)

\* C11: thread bound and mode dispatch.  At most two threads are ever live
\* (the caller's and one worker), and a thread is spawned at most once (no
\* retries).  In App::record and App::capture a worker is spawned if and
\* only if a command is configured; without one the capture runs on the
\* caller's thread and there is no worker, no handle, no cancellation and
\* no join.
C11_ThreadBoundAndDispatch ==
    /\ SpawnCount <= 1
    /\ LiveThreads <= 2
    /\ (wpc # "none") <=> (SpawnCount = 1)
    /\ prog \in {"record", "capture"} =>
          /\ (SpawnCount = 1) <=> (hasCommand /\ cpc # "start")
          /\ ~hasCommand =>
                /\ wpc = "none"
                /\ hpc = "none"
                /\ chan = 0
                /\ finishLog = <<>>
                /\ joinRes = NoRes
                /\ cmdRes = "none"
          /\ (hpc # "none") => (prog = "record" /\ hasCommand)

C11_Witness ==
    /\ prog = "record"
    /\ hasCommand
    /\ cpc = "command"
    /\ wpc = "image"
    /\ LiveThreads = 2


Count(e) == Cardinality({i \in DOMAIN log : log[i] = e})

\* C12 (as claimed): in every reachable state of a running recording the
\* number of frames collected equals the number of ticks performed and the
\* number of source invocations that returned an image.
C12_FramesEqualTicks ==
    (RecorderWorker /\ WorkerLive) =>
        /\ Len(frames) = ticks
        /\ Len(frames) = Captured

\* C12 (amended): no tick is skipped.  Every iteration starts with a poll
\* that found no cancellation, then ticks the clock once and invokes the
\* source once, and either appends one frame or panics.  So at every poll,
\* and in every state outside an iteration in progress, frames = ticks =
\* invocations that returned an image; inside an iteration, between the
\* tick and the push, the tick count is one ahead; the number of frames
\* always equals the number of invocations that returned an image.
C12_NoTickSkipped ==
    RecorderWorker =>
        /\ Len(frames) = Captured
        /\ Count("image") = calls
        /\ Count("iterate") = ticks + (IF wpc \in {"tick", "ticksleep"} THEN 1 ELSE 0)
        /\ wpc \in {"sleep", "poll", "tick", "ticksleep", "ret", "done"} =>
              (ticks = Len(frames) /\ calls = ticks)
        /\ wpc = "image" => (ticks = Len(frames) + 1 /\ calls = Len(frames))
        /\ wpc = "panicked" => (ticks = calls /\ Len(frames) = ticks - 1)

C12_Witness ==
    /\ RecorderWorker
    /\ wpc = "poll"
    /\ ticks = 2
    /\ calls = 2
    /\ Len(frames) = 2


\* The number of events e logged after the first successful send.
AfterSend(e) == Cardinality({i \in DOMAIN log : log[i] = e /\ i > First("send")})

\* C13: bounded cancellation latency.  Once finish() has sent the
\* cancellation, the worker starts no further iteration (every later poll
\* finds the message), invokes the image source at most once more (the
\* iteration already in progress) and so appends at most one more frame
\* before it observes the cancellation and returns.
C13_BoundedCancelLatency ==
    (RecorderWorker /\ Has("send")) =>
        /\ AfterSend("iterate") = 0
        /\ AfterSend("image") <= 1
        /\ AfterSend("image") = 1 =>
              (\E i \in 1..First("send") : log[i] = "iterate")
        /\ wpc = "done" => AfterSend("observe") = 1

C13_Witness ==
    /\ RecorderWorker
    /\ Has("send")
    /\ AfterSend("image") = 1
    /\ Len(frames) = 2
    /\ wpc = "done"


\* The number of events e logged after the handle was dropped.
AfterDrop(e) == Cardinality({i \in DOMAIN log : log[i] = e /\ i > First("drop")})

\* C14 (as claimed): dropping the Record handle without finish() acts as a
\* cancellation: the loop sees the closed channel at its next poll and
\* stops, so no iteration starts after the drop.
C14_DropStopsWorker ==
    (prog = "client" /\ Has("drop")) => AfterDrop("iterate") = 0


\* The position in the log of the first call of finish().
FirstFinish ==
    IF \E i \in DOMAIN log : log[i] \in {"send", "send_err"}
    THEN CHOOSE i \in DOMAIN log :
             /\ log[i] \in {"send", "send_err"}
             /\ \A j \in 1..(i - 1) : log[j] \notin {"send", "send_err"}
    ELSE 0

\* finish() was called before the worker's first poll: every poll before a
\* send finds no message and starts an iteration, so none was logged.
EarlyFinish ==
    /\ RecorderWorker
    /\ FirstFinish > 0
    /\ \A j \in 1..FirstFinish : log[j] # "iterate"

\* C15: a cancellation sent before the worker's first poll is not lost: the
\* send succeeds, the message stays queued until the first poll observes it,
\* the worker never starts an iteration and never calls the image source,
\* and join returns Ok with zero frames.
C15_EarlyCancelNotLost ==
    EarlyFinish =>
        /\ finishLog[1] = "Ok"
        /\ wpc \in {"sleep", "poll", "ret", "done"}
        /\ wpc \in {"sleep", "poll"} => chan >= 1
        /\ wpc \in {"ret", "done"} => Count("observe") = 1
        /\ ~Has("iterate") /\ ~Has("image")
        /\ calls = 0 /\ ticks = 0 /\ frames = <<>>
        /\ joinRes.tag # "none" => joinRes = [tag |-> "Ok", frames |-> <<>>]

C15_Witness ==
    /\ EarlyFinish
    /\ SelectSeq(log, IsHandoff) = <<"spawn", "send", "observe", "return", "join">>
    /\ calls = 0
    /\ joinRes = [tag |-> "Ok", frames |-> <<>>]

====
